---- MODULE Spec2Model ----
(***************************************************************************)
(* Resource-aware adaptive processing engine of cc-detector                *)
(* (claude_subagent/resource_management/__init__.py): ResourceMonitor,     *)
(* ResourceConstraints, ResourceOptimizer and AdaptiveProcessingEngine.    *)
(*                                                                         *)
(* Percentages are integers; a ratio test r < t/10 is cross-multiplied.    *)
(* A batch size is kept with its Python type (int or float) because        *)
(* range() and slicing accept only int.  Time is discrete: one Tick is one *)
(* poll interval (1 s) of _wait_for_resources, which is also the sampling  *)
(* interval of the monitor; steps that do not sleep take no time.          *)
(*                                                                         *)
(* Specifications:                                                         *)
(*   SpecEngine        one call on a fresh engine, every tier, the         *)
(*                     stepwise strategies and ParallelLimited             *)
(*   SpecSampling      one AdaptiveSampling call over a long list          *)
(*   SpecWait          one call under pressure, with fair scheduling       *)
(*   SpecOverlap       two overlapping ParallelLimited calls               *)
(*   SpecCache         two successive CachingAggressive calls              *)
(*   SpecCacheOverlap  two overlapping CachingAggressive calls             *)
(*   SpecSampler       a monitor that is started and stopped, with         *)
(*                     captures that fail and observers that raise         *)
(*   SpecRing          a monitor that fills its history of 1000 snapshots  *)
(*   SpecReaders       reads of the history while the loop appends         *)
(*   SpecCleanup       an engine with a run and calls of cleanup           *)
(*   SpecOptimizer     the optimizer's pure methods called directly on     *)
(*                     drawn snapshots, constraints and counts             *)
(*   SpecDelegate      SkillPriority and OffloadExternal next to           *)
(*                     Sequential, on an engine without adaptive_manager   *)
(*   SpecReuse         a ParallelLimited run, a cleanup and a second run   *)
(*   SpecKeys          CachingAggressive runs with callbacks that share a  *)
(*                     name and items that share a text                    *)
(*                                                                         *)
(* The engine specifications keep of the monitor what the engine reads,    *)
(* the latest snapshot (current_metrics, published by MonitorLoop), and    *)
(* leave the monitor started as __init__ leaves it.  The monitor           *)
(* specifications keep its threads, its history and its callers; there a   *)
(* step of time is Second.                                                 *)
(***************************************************************************)
EXTENDS Integers, Sequences, FiniteSets, TLC

(* ---------------- program constants ---------------- *)
max_cpu_percent == 80
max_memory_percent == 80
max_batch_size == 1000
max_concurrent_tasks == 4
ParallelThreshold == 10
SamplingThreshold == 100
BaseBatchCap == 100
CacheLimit == 1000
WaitTimeout == 30
PollInterval == 1
DefaultInterval == 1
HistoryLimit == 1000
JoinTimeout == 2

(* ---------------- bounds of the model ---------------- *)
\* mp.cpu_count() of the host
CpuCount == 4
\* longest item list given to a stepwise run
MaxItems == 11
\* longest item list given to an AdaptiveSampling run
MaxSampleItems == 150
\* most thread pools one engine makes: one for each caller
MaxPools == 2

Callers == {1, 2}

Min(a, b) == IF a <= b THEN a ELSE b
Max(a, b) == IF a >= b THEN a ELSE b

(* ---------------- values ---------------- *)
NoData == [cpu |-> -1, mem |-> -1]
Snap(c, m) == [cpu |-> c, mem |-> m]
\* one snapshot per tier, plus a loaded NONE snapshot (lower concurrency)
CalmSnap == Snap(0, 0)
BusySnap == Snap(39, 39)
LowSnap == Snap(45, 15)
MediumSnap == Snap(60, 15)
HighSnap == Snap(75, 86)
CriticalSnap == Snap(95, 92)

None == [k |-> "none", v |-> 0]
EmptyList == [k |-> "list", v |-> 0]
Val(cb, x) == [k |-> IF cb.list THEN "listval" ELSE "val", v |-> x]

(* ---------------- ResourceConstraints.get_constraint_level ---------------- *)
\* a ResourceConstraints as far as the optimizer reads it: Unset is None
Unset == -1
DefaultConstraints == [max_cpu_percent |-> max_cpu_percent,
                       max_memory_percent |-> max_memory_percent,
                       max_batch_size |-> max_batch_size]

\* Python's truth value of a constraint: None and 0 are false
Truthy(x) == x # Unset /\ x # 0

\* as RatioBelowUnder with each bound taken inclusive (a variant, not the code)
RatioAtMostUnder(c, m, tenths) ==
    /\ (~Truthy(c.max_cpu_percent) \/ m.cpu * 10 <= tenths * c.max_cpu_percent)
    /\ (~Truthy(c.max_memory_percent) \/ m.mem * 10 <= tenths * c.max_memory_percent)

\* max(cpu_ratio, memory_ratio) < tenths/10, a ratio being 0 when its max is 0 or None
RatioBelowUnder(c, m, tenths) ==
    /\ (~Truthy(c.max_cpu_percent) \/ m.cpu * 10 < tenths * c.max_cpu_percent)
    /\ (~Truthy(c.max_memory_percent) \/ m.mem * 10 < tenths * c.max_memory_percent)

RatioBelow(m, tenths) == RatioBelowUnder(DefaultConstraints, m, tenths)

\* the method on any ResourceConstraints c
LevelUnder(c, m) ==
    IF RatioBelowUnder(c, m, 5) THEN "none"
    ELSE IF RatioBelowUnder(c, m, 7) THEN "low"
    ELSE IF RatioBelowUnder(c, m, 9) THEN "medium"
    ELSE IF RatioBelowUnder(c, m, 11) THEN "high"
    ELSE "critical"

\* the method on the engine's constraints
get_constraint_level(m) == LevelUnder(DefaultConstraints, m)

(* ---------------- ResourceOptimizer ---------------- *)
\* as StrategyAt with both thresholds taken inclusive (a variant, not the code)
StrategyFrom(level, task_count) ==
    IF level = "none" THEN
        (IF task_count >= ParallelThreshold THEN "parallel_limited" ELSE "batch_optimized")
    ELSE IF level = "low" THEN "batch_optimized"
    ELSE IF level = "medium" THEN "skill_priority"
    ELSE IF level = "high" THEN
        (IF task_count >= SamplingThreshold THEN "adaptive_sampling" ELSE "caching_aggressive")
    ELSE "sequential"

\* the branch select_optimal_strategy takes at a level
StrategyAt(level, task_count) ==
    IF level = "none" THEN
        (IF task_count > ParallelThreshold THEN "parallel_limited" ELSE "batch_optimized")
    ELSE IF level = "low" THEN "batch_optimized"
    ELSE IF level = "medium" THEN "skill_priority"
    ELSE IF level = "high" THEN
        (IF task_count > SamplingThreshold THEN "adaptive_sampling" ELSE "caching_aggressive")
    ELSE "sequential"

select_optimal_strategy(m, task_count) == StrategyAt(get_constraint_level(m), task_count)

\* a Python number: int or float, held as twice its value (base * 1.5 may end in .5)
PyInt(n) == [int |-> TRUE, twice |-> 2 * n]
PyFloat2(t) == [int |-> FALSE, twice |-> t]
\* Python's min(a, b) returns a unless b < a
PyMin(a, b) == IF b.twice < a.twice THEN b ELSE a

\* the branch optimize_batch_size takes at a level, under constraints c
BatchSizeAt(c, level, base_batch_size) ==
    IF level = "none" THEN PyMin(PyInt(base_batch_size * 2), PyInt(c.max_batch_size))
    ELSE IF level = "low" THEN PyMin(PyFloat2(base_batch_size * 3), PyInt(c.max_batch_size))
    ELSE IF level = "medium" THEN PyInt(base_batch_size)
    ELSE IF level = "high" THEN PyInt(Max(base_batch_size \div 2, 10))
    ELSE PyInt(Max(base_batch_size \div 4, 1))

optimize_batch_size(m, base_batch_size) ==
    BatchSizeAt(DefaultConstraints, get_constraint_level(m), base_batch_size)

\* int(cpu_cores * max(0.1, 1 - cpu/100) * max(0.1, 1 - mem/100)), at least 1
BaseConcurrency(m) ==
    Max(1, (CpuCount * Max(10, 100 - m.cpu) * Max(10, 100 - m.mem)) \div 10000)

optimize_concurrency(m, task_count) ==
    LET level == get_constraint_level(m)
        base == BaseConcurrency(m)
    IN
    IF level = "none" THEN Min(Min(base * 2, max_concurrent_tasks), task_count)
    ELSE IF level = "low" THEN Min(Min(base, max_concurrent_tasks), task_count)
    ELSE IF level = "medium" THEN Max(1, Min(base \div 2, task_count))
    ELSE IF level = "high" THEN Max(1, Min(base \div 4, task_count))
    ELSE 1

(* ---------------- the caller's callback ---------------- *)
\* A callback is pure: it raises on the items in fails and returns a value
\* (a list when list is TRUE) on the others.  Given a chunk (BatchOptimized
\* hands it a list), it does what batch says.
Invoke(cb, x) == IF x \in cb.fails THEN [k |-> "raise", v |-> x] ELSE Val(cb, x)

\* what results.extend(...) adds for one chunk
BatchReturn(cb, chunk) ==
    IF cb.batch = "scalar" THEN <<Val(cb, 0)>>
    ELSE IF cb.batch = "same" THEN [j \in 1..Len(chunk) |-> Val(cb, chunk[j])]
    ELSE IF cb.batch = "short" THEN [j \in 1..(Len(chunk) - 1) |-> Val(cb, chunk[j])]
    ELSE [j \in 1..(Len(chunk) + 1) |-> IF j <= Len(chunk) THEN Val(cb, chunk[j]) ELSE Val(cb, 0)]

(* ---------------- AdaptiveProcessingEngine._process_adaptive_sampling ---------------- *)
\* int(total_items * sample_ratio) for the ratios 0.1, 0.25 and 0.5
SampleSize(total_items, level) ==
    LET scaled == IF level = "critical" THEN total_items \div 10
                  ELSE IF level = "high" THEN total_items \div 4
                  ELSE total_items \div 2
    IN Max(1, Min(total_items, scaled))

\* the positions (1-based) of data_items[a:b][::step], a and b being 0-based slice bounds
SliceStep(a, b, step) ==
    LET cnt == IF b > a THEN (b - a + step - 1) \div step ELSE 0
    IN [j \in 1..cnt |-> a + 1 + (j - 1) * step]

SampledPositions(total_items, sample_size) ==
    IF total_items <= sample_size THEN [j \in 1..total_items |-> j]
    ELSE
        LET first_end == Max(1, sample_size \div 5)
            last_start == Max(first_end, total_items - sample_size \div 5)
            middle_sample == sample_size - first_end - (total_items - last_start)
            stride == Max(1, (last_start - first_end) \div Max(1, middle_sample))
        IN SliceStep(0, first_end, 1) \o SliceStep(first_end, last_start, stride)
               \o SliceStep(last_start, total_items, 1)

(* ---------------- AdaptiveProcessingEngine._extrapolate_results ---------------- *)
Placeholder(sampled_results) ==
    IF Len(sampled_results) > 0 /\ sampled_results[1].k \in {"listval", "list"}
    THEN EmptyList ELSE None

\* the loop of lines 822-831 over positions lo..hi of all_items, entered with
\* sample_index: the entries it appends and the sample_index it leaves.  The
\* range is halved so that the evaluation stays shallow on long lists.
RECURSIVE ExtrapolateRange(_, _, _, _, _, _)
ExtrapolateRange(lo, hi, sample_index, sampled_items, sampled_results, all_items) ==
    IF lo > hi THEN [res |-> <<>>, sample_index |-> sample_index]
    ELSE IF lo = hi THEN
        IF sample_index <= Len(sampled_items) /\ all_items[lo] = sampled_items[sample_index]
        THEN [res |-> <<sampled_results[sample_index]>>, sample_index |-> sample_index + 1]
        ELSE [res |-> <<Placeholder(sampled_results)>>, sample_index |-> sample_index]
    ELSE
        LET mid == (lo + hi) \div 2
            left == ExtrapolateRange(lo, mid, sample_index, sampled_items, sampled_results,
                                     all_items)
            right == ExtrapolateRange(mid + 1, hi, left.sample_index, sampled_items,
                                      sampled_results, all_items)
        IN [res |-> left.res \o right.res, sample_index |-> right.sample_index]

extrapolate_results(sampled_items, sampled_results, all_items) ==
    IF Len(sampled_items) = Len(all_items) THEN sampled_results
    ELSE ExtrapolateRange(1, Len(all_items), 1, sampled_items, sampled_results, all_items).res

(* ---------------- AdaptiveProcessingEngine._create_cache_key ---------------- *)
\* Items are numbers.  An item above TextBase is the str whose text is the
\* decimal of item - TextBase; the others are ints.  str(item) is the text.
TextBase == 1000
ItemStr(item) == IF item > TextBase THEN item - TextBase ELSE item
\* md5 of "name:text", taken as collision free
create_cache_key(item, func_name) == <<func_name, ItemStr(item)>>

Absent == [k |-> "absent", v |-> 0]
FuncNames == {"f", "g"}
KeySpace == FuncNames \X (0..(MaxItems + 1))

(* ---------------- state ---------------- *)
VARIABLES
    current_metrics,     \* resource_monitor.metrics_history[-1], NoData while the history is empty
    sample_due,          \* the monitor loop has not yet sampled in this interval
    is_processing,       \* engine.is_processing
    current_strategy,    \* engine.current_strategy
    executor,            \* engine.executor: 0 is None, else an index of pools
    pools,               \* every ThreadPoolExecutor made so far: max_workers, shutdown flag, work queue
    performance_cache,   \* engine.performance_cache on KeySpace, Absent where no entry
    cache_filler,        \* entries of performance_cache under keys outside KeySpace
    processing_history,  \* engine.processing_history
    runs_started,        \* process_with_constraints calls made so far
    call,                \* per caller: the frame of its process_with_constraints call
    task,                \* per caller: the futures of its ParallelLimited run
    probe                \* a direct call of a ResourceOptimizer method: its arguments and its return

\* the state of engine.resource_monitor, a ResourceMonitor
VARIABLES
    is_monitoring,       \* monitor.is_monitoring
    sampling_interval,   \* monitor.sampling_interval, in seconds
    monitor_thread,      \* monitor.monitor_thread: 0 is None, else an index of threads
    threads,             \* every thread started on _monitor_loop so far
    metrics_history,     \* monitor.metrics_history, oldest first
    captures,            \* the snapshots _collect_metrics has returned so far
    notified,            \* per observer callback: the timestamp of the last snapshot it was called with
    user,                \* the thread that calls start_monitoring, stop_monitoring and cleanup
    reader               \* a thread that calls get_current_metrics and get_average_metrics

monitor_vars == <<is_monitoring, sampling_interval, monitor_thread, threads, metrics_history,
                  captures, notified, user, reader>>

vars == <<current_metrics, sample_due, is_processing, current_strategy, executor, pools,
          performance_cache, cache_filler, processing_history, runs_started, call, task,
          monitor_vars, probe>>

NoCallback == [list |-> FALSE, fails |-> {}, batch |-> "scalar", name |-> "f"]

IdleCall ==
    [cb |-> NoCallback, level |-> "unread", pc |-> "idle", items |-> <<>>,
     strategy |-> "sequential", batch_size |-> PyInt(0), concurrency |-> 0,
     metrics |-> NoData, pos |-> 1, results |-> <<>>, attempts |-> <<>>, waited |-> 0,
     error |-> "none", pool |-> 0, run |-> 0]

\* a thread started on _monitor_loop, about to test `while self.is_monitoring`:
\* slept counts the seconds of its time.sleep, passed is the number of threads
\* that had been started when it last found is_monitoring true, log lists the
\* outcomes of its iterations, born is the number of captures made before it
\* was started
NewLoop == [st |-> "run", slept |-> 0, passed |-> 0, log |-> <<>>, born |-> 0]

\* the observer callbacks registered with add_callback, by position in monitor.callbacks
Observers == {1, 2}

ReadyUser == [pc |-> "ready", waited |-> 0, error |-> "none", op |-> "none", prev |-> "none"]

IdleReader == [pc |-> "idle", pos |-> 0, error |-> "none", op |-> "none", cutoff |-> 0,
               seen |-> 0, out |-> NoData]

\* ResourceMonitor.__init__, lines 154-159, with the given sampling interval
NewMonitor(interval) ==
    /\ is_monitoring = FALSE
    /\ sampling_interval = interval
    /\ monitor_thread = 0
    /\ threads = <<>>
    /\ metrics_history = <<>>
    /\ captures = 0
    /\ notified = [o \in Observers |-> 0]
    /\ user = ReadyUser
    /\ reader = IdleReader

\* lines 441 and 459: the engine makes its monitor with the default interval
\* and starts it
StartedMonitor ==
    /\ is_monitoring = TRUE
    /\ sampling_interval = DefaultInterval
    /\ monitor_thread = 1
    /\ threads = <<NewLoop>>
    /\ metrics_history = <<>>
    /\ captures = 0
    /\ notified = [o \in Observers |-> 0]
    /\ user = ReadyUser
    /\ reader = IdleReader

\* no optimizer method has been called directly
NoProbe == [c |-> DefaultConstraints, m |-> NoData, n |-> 0, op |-> "none", out |-> "none"]

\* the engine after __init__, lines 434-460
NewEngine ==
    /\ current_metrics = NoData
    /\ sample_due = TRUE
    /\ is_processing = FALSE
    /\ current_strategy = "sequential"
    /\ executor = 0
    /\ pools = <<>>
    /\ performance_cache = [key \in KeySpace |-> Absent]
    /\ cache_filler = 0
    /\ processing_history = <<>>
    /\ runs_started = 0
    /\ call = [c \in Callers |-> IdleCall]
    /\ task = [c \in Callers |-> <<>>]

Init ==
    /\ StartedMonitor
    /\ NewEngine
    /\ probe = NoProbe

CacheLen == Cardinality({key \in KeySpace : performance_cache[key] # Absent}) + cache_filler

(* ---------------- ResourceMonitor ---------------- *)
\* AdaptiveProcessingEngine._on_resource_update, the callback the engine registers
on_resource_update(m) ==
    IF is_processing /\ select_optimal_strategy(m, 0) # current_strategy
    THEN select_optimal_strategy(m, 0)
    ELSE current_strategy

\* one iteration of ResourceMonitor._monitor_loop: collect, append, notify
MonitorLoop(source) ==
    /\ sample_due
    /\ \E m \in source :
        /\ current_metrics' = m
        /\ current_strategy' = on_resource_update(m)
    /\ sample_due' = FALSE
    /\ UNCHANGED <<is_processing, monitor_vars, probe, executor, pools, performance_cache, cache_filler,
                   processing_history, runs_started, call, task>>

(* ---------------- process_with_constraints: selection ---------------- *)
FirstPc(strategy) ==
    IF strategy = "parallel_limited" THEN "submit"
    ELSE IF strategy = "adaptive_sampling" THEN "sample"
    ELSE "loop"

\* lines 491-513: snapshot, strategy, batch size, concurrency
StartCall(c, items, cb, source) ==
    /\ call[c].pc = "idle"
    /\ \E collected \in source :
        LET m == IF current_metrics = NoData THEN collected ELSE current_metrics
            n == Len(items)
            strategy == select_optimal_strategy(m, n)
        IN
        /\ current_strategy' = strategy
        /\ call' = [call EXCEPT ![c] =
               [IdleCall EXCEPT !.pc = FirstPc(strategy), !.items = items, !.cb = cb,
                                !.strategy = strategy,
                                !.batch_size = optimize_batch_size(m, Min(BaseBatchCap, n)),
                                !.concurrency = optimize_concurrency(m, n),
                                !.metrics = m,
                                !.attempts = [i \in 1..n |-> 0],
                                !.run = runs_started + 1]]
    /\ runs_started' = runs_started + 1
    /\ task' = [task EXCEPT ![c] = <<>>]
    /\ UNCHANGED <<current_metrics, sample_due, is_processing, monitor_vars, probe, executor, pools,
                   performance_cache, cache_filler, processing_history>>

\* a record that reads the strategy and the parameters again when the run ends
InfoFromLatest(f) ==
    LET m == IF current_metrics = NoData THEN f.metrics ELSE current_metrics IN
    [strategy |-> select_optimal_strategy(m, Len(f.items)), data_count |-> Len(f.items),
     batch_size |-> optimize_batch_size(m, Min(BaseBatchCap, Len(f.items))),
     concurrency |-> optimize_concurrency(m, Len(f.items)), resource_metrics |-> m,
     run |-> f.run]

\* lines 533-546: the record appended when a run ends
PerformanceInfo(f) ==
    [strategy |-> f.strategy, data_count |-> Len(f.items), batch_size |-> f.batch_size,
     concurrency |-> f.concurrency, resource_metrics |-> f.metrics, run |-> f.run]

\* a history that keeps its records in the order in which the calls were made
InsertedByRun(history, r) ==
    LET before == SelectSeq(history, LAMBDA x : x.run < r.run)
        after == SelectSeq(history, LAMBDA x : x.run > r.run)
    IN before \o <<r>> \o after

RecordedInCallOrder(f) == InsertedByRun(processing_history, PerformanceInfo(f))

\* self.processing_history.append(performance_info), line 546
Recorded(f) == Append(processing_history, PerformanceInfo(f))

(* ---------------- _execute_with_resource_management / _wait_for_resources ---------------- *)
\* a check that never sends the caller to sleep
NeverWaits == FALSE

\* lines 755-761 with the first iteration of the wait loop: TRUE when the
\* caller goes to sleep instead of invoking the callback
MustWait == current_metrics # NoData /\ get_constraint_level(current_metrics) = "critical"

\* a wait loop without the timeout: it ends only on a poll that is not critical
WaitsForClearance(waited) == get_constraint_level(current_metrics) # "critical"

\* after asyncio.sleep(1.0): the loop ends on the timeout or on a poll that is not critical
WaitOver(waited) == waited >= WaitTimeout \/ get_constraint_level(current_metrics) # "critical"

(* ---------------- the per-item loops ---------------- *)
\* _process_sequential, _process_skill_priority, _process_offload_external,
\* _process_caching_aggressive and _process_batch_optimized run in the caller:
\* call[c].pos is the loop position, and pc is "loop" at the head of the loop,
\* "sleep" in asyncio.sleep of _wait_for_resources, "exec" while the callback
\* runs, "store" between the cache size test and the cache write.
Chunk(f) ==
    SubSeq(f.items, f.pos, Min(f.pos + f.batch_size.twice \div 2 - 1, Len(f.items)))

CacheKeyAt(f) == create_cache_key(f.items[f.pos], f.cb.name)

Bump(attempts, i) == [attempts EXCEPT ![i] = @ + 1]

\* the frame after the resource check of _execute_with_resource_management
Checked(f) ==
    IF MustWait
    THEN [f EXCEPT !.pc = "sleep", !.waited = 0]
    ELSE [f EXCEPT !.pc = "exec", !.waited = 0, !.attempts = Bump(@, f.pos)]

\* the frame of a run that has ended: for a run that process_with_constraints
\* started (run > 0) the performance record is due (lines 533-548)
Returned(f, results) == [f EXCEPT !.pc = "returned", !.results = results]

Raised(f, error) == [f EXCEPT !.pc = "raised", !.error = error]

\* a variant in which SkillPriority and OffloadExternal run the caching loop
CachingBody(strategy) ==
    IF strategy \in {"skill_priority", "offload_external"} THEN "caching_aggressive"
    ELSE strategy

\* the loop that runs for a strategy on an engine without adaptive_manager:
\* _process_skill_priority (lines 634-635) and _process_offload_external
\* (line 748) return what _process_sequential returns
Body(strategy) ==
    IF strategy \in {"skill_priority", "offload_external"} THEN "sequential"
    ELSE strategy

\* range(0, len(data_items), batch_size), line 577
RangeError(f) ==
    IF Body(f.strategy) # "batch_optimized" THEN "none"
    ELSE IF ~f.batch_size.int THEN "TypeError"
    ELSE IF f.batch_size.twice = 0 THEN "ValueError"
    ELSE "none"

\* the head of the loop: the next item (or chunk), a cache hit, or the end of the run
BeginItem(c) ==
    LET f == call[c] IN
    /\ f.pc = "loop"
    /\ IF RangeError(f) # "none" THEN
           /\ call' = [call EXCEPT ![c] = Raised(f, RangeError(f))]
           /\ UNCHANGED processing_history
       ELSE IF f.pos > Len(f.items) THEN
           /\ call' = [call EXCEPT ![c] = Returned(f, f.results)]
           /\ processing_history' = IF f.run = 0 THEN processing_history ELSE Recorded(f)
       ELSE IF Body(f.strategy) = "caching_aggressive"
                 /\ performance_cache[CacheKeyAt(f)] # Absent THEN
           /\ call' = [call EXCEPT ![c] =
                  [f EXCEPT !.results = Append(@, performance_cache[CacheKeyAt(f)]),
                            !.pos = @ + 1]]
           /\ UNCHANGED processing_history
       ELSE
           /\ call' = [call EXCEPT ![c] = Checked(f)]
           /\ UNCHANGED processing_history
    /\ UNCHANGED <<current_metrics, sample_due, is_processing, monitor_vars, probe, current_strategy,
                   executor,
                   pools, performance_cache, cache_filler, runs_started, task>>

\* the frame once _execute_with_resource_management has returned: its locals are gone
Left(f) == [f EXCEPT !.waited = 0]

\* a loop without the try/except around the callback: its exception ends the run
AbortingOnFailure(f) ==
    IF Body(f.strategy) # "batch_optimized" /\ Invoke(f.cb, f.items[f.pos]).k = "raise"
    THEN [f EXCEPT !.pc = "raised", !.error = "Exception"]
    ELSE [f EXCEPT !.pc = "loop", !.results = Append(@, Invoke(f.cb, f.items[f.pos])),
                   !.pos = @ + 1]

\* a CachingAggressive loop that never writes to the cache
WithoutStore(f) ==
    IF Invoke(f.cb, f.items[f.pos]).k = "raise"
    THEN [f EXCEPT !.pc = "loop", !.results = Append(@, None), !.pos = @ + 1]
    ELSE [f EXCEPT !.pc = "loop", !.results = Append(@, Invoke(f.cb, f.items[f.pos])),
                   !.pos = @ + 1]

\* what the loop does with the callback's outcome
AfterCallback(f) ==
    IF Body(f.strategy) = "batch_optimized" THEN
        [f EXCEPT !.pc = "loop",
                  !.results = @ \o (IF f.cb.batch = "raise"
                                    THEN [j \in 1..Len(Chunk(f)) |-> None]
                                    ELSE BatchReturn(f.cb, Chunk(f))),
                  !.pos = @ + f.batch_size.twice \div 2]
    ELSE IF Invoke(f.cb, f.items[f.pos]).k = "raise" THEN
        [f EXCEPT !.pc = "loop", !.results = Append(@, None), !.pos = @ + 1]
    ELSE IF Body(f.strategy) = "caching_aggressive" /\ CacheLen < CacheLimit THEN
        [f EXCEPT !.pc = "store"]
    ELSE
        [f EXCEPT !.pc = "loop", !.results = Append(@, Invoke(f.cb, f.items[f.pos])),
                  !.pos = @ + 1]

\* the callback returns or raises
Return(c) ==
    /\ call[c].pc = "exec"
    /\ call' = [call EXCEPT ![c] = Left(AfterCallback(call[c]))]
    /\ UNCHANGED <<current_metrics, sample_due, is_processing, monitor_vars, probe, current_strategy,
                   executor,
                   pools, performance_cache, cache_filler, processing_history, runs_started,
                   task>>

\* self.performance_cache[cache_key] = result, line 728
Store(c) ==
    LET f == call[c] IN
    /\ f.pc = "store"
    /\ performance_cache' =
           [performance_cache EXCEPT ![CacheKeyAt(f)] = Invoke(f.cb, f.items[f.pos])]
    /\ call' = [call EXCEPT ![c] =
           [f EXCEPT !.pc = "loop", !.results = Append(@, Invoke(f.cb, f.items[f.pos])),
                     !.pos = @ + 1]]
    /\ UNCHANGED <<current_metrics, sample_due, is_processing, monitor_vars, probe, current_strategy,
                   executor,
                   pools, cache_filler, processing_history, runs_started, task>>

(* ---------------- _process_parallel_limited ---------------- *)
QueuedTask == [waited |-> 0, st |-> "queued", out |-> None]

NewPool(max_workers) == [max_workers |-> max_workers, shutdown |-> FALSE, queue |-> <<>>]

\* lines 597-600: keep the executor, or shut it down without waiting and make another
ReplacesExecutor(concurrency) ==
    executor = 0 \/ pools[executor].max_workers # concurrency

PoolsAfterReplace(concurrency) ==
    IF ~ReplacesExecutor(concurrency) THEN pools
    ELSE IF executor = 0 THEN Append(pools, NewPool(concurrency))
    ELSE Append([pools EXCEPT ![executor].shutdown = TRUE], NewPool(concurrency))

\* lines 597-613: every item is handed to the executor before the first await;
\* submit() on an executor that was shut down raises RuntimeError
Submit(c) ==
    LET f == call[c]
        after == PoolsAfterReplace(f.concurrency)
        e == IF ReplacesExecutor(f.concurrency) THEN Len(pools) + 1 ELSE executor
    IN
    /\ f.pc = "submit"
    /\ executor' = e
    /\ IF after[e].shutdown THEN
           /\ pools' = after
           /\ call' = [call EXCEPT ![c] = Raised(f, "RuntimeError")]
           /\ UNCHANGED task
       ELSE
           /\ pools' = [after EXCEPT ![e].queue =
                            @ \o [i \in 1..Len(f.items) |-> <<c, i>>]]
           /\ call' = [call EXCEPT ![c] = [f EXCEPT !.pc = "gather", !.pool = e]]
           /\ task' = [task EXCEPT ![c] = [i \in 1..Len(f.items) |-> QueuedTask]]
    /\ UNCHANGED <<current_metrics, sample_due, is_processing, monitor_vars, probe, current_strategy,
                   performance_cache, cache_filler, processing_history, runs_started>>

\* the work items of pool p that a worker thread is running
InFlight(p) ==
    {ci \in Callers \X (1..MaxItems + 1) :
        /\ call[ci[1]].pool = p
        /\ ci[2] <= Len(task[ci[1]])
        /\ task[ci[1]][ci[2]].st \in {"sleep", "exec"}}

CanPick(p) ==
    /\ pools[p].queue # <<>>
    /\ Cardinality(InFlight(p)) < pools[p].max_workers

\* a worker thread of pool p takes the next work item (FIFO) and runs
\* asyncio.run(_execute_with_resource_management(...)) up to the callback
Pick(p) ==
    /\ p \in 1..Len(pools)
    /\ CanPick(p)
    /\ LET c == Head(pools[p].queue)[1]
           i == Head(pools[p].queue)[2]
       IN
       /\ pools' = [pools EXCEPT ![p].queue = Tail(@)]
       /\ IF MustWait THEN
              /\ task' = [task EXCEPT ![c][i] = [QueuedTask EXCEPT !.st = "sleep"]]
              /\ UNCHANGED call
          ELSE
              /\ task' = [task EXCEPT ![c][i] = [QueuedTask EXCEPT !.st = "exec"]]
              /\ call' = [call EXCEPT ![c].attempts = Bump(@, i)]
    /\ UNCHANGED <<current_metrics, sample_due, is_processing, monitor_vars, probe, current_strategy,
                   executor,
                   performance_cache, cache_filler, processing_history, runs_started>>

\* the callback of work item i returns or raises: the future holds the outcome
TaskReturn(c, i) ==
    /\ i \in 1..Len(task[c])
    /\ task[c][i].st = "exec"
    /\ task' = [task EXCEPT ![c][i] =
           [Left(@) EXCEPT !.st = "done", !.out = Invoke(call[c].cb, call[c].items[i])]]
    /\ UNCHANGED <<current_metrics, sample_due, is_processing, monitor_vars, probe, current_strategy,
                   executor,
                   pools, performance_cache, cache_filler, processing_history, runs_started,
                   call>>

\* a gather that leaves the failed work items out instead of giving them None
GatheredWithoutFailures(c) ==
    LET kept == SelectSeq([i \in 1..Len(task[c]) |-> task[c][i].out],
                          LAMBDA out : out.k # "raise")
    IN kept

\* lines 616-627: asyncio.gather(*tasks, return_exceptions=True) lists the
\* outcomes in task order; an exception becomes None
Gathered(c) ==
    [i \in 1..Len(task[c]) |->
        IF task[c][i].out.k = "raise" THEN None ELSE task[c][i].out]

Gather(c) ==
    LET f == call[c] IN
    /\ f.pc = "gather"
    /\ \A i \in 1..Len(task[c]) : task[c][i].st = "done"
    /\ call' = [call EXCEPT ![c] = Returned(f, Gathered(c))]
    /\ processing_history' = Recorded(f)
    /\ UNCHANGED <<current_metrics, sample_due, is_processing, monitor_vars, probe, current_strategy,
                   executor,
                   pools, performance_cache, cache_filler, runs_started, task>>

(* ---------------- time ---------------- *)
\* some step that takes no time is still to be taken
Runnable ==
    \/ \E c \in Callers : call[c].pc \in {"loop", "exec", "store", "submit", "sample"}
    \/ \E c \in Callers : call[c].pc = "gather" /\ \A i \in 1..Len(task[c]) : task[c][i].st = "done"
    \/ \E c \in Callers : \E i \in 1..Len(task[c]) : task[c][i].st = "exec"
    \/ \E p \in 1..Len(pools) : CanPick(p)

\* a sleeper after asyncio.sleep(1.0), lines 781-790 and 767-772
Woken(x) == [x EXCEPT !.waited = @ + PollInterval]

WokenTask(t) ==
    IF t.st # "sleep" THEN t
    ELSE [Woken(t) EXCEPT !.st = IF WaitOver(t.waited + PollInterval) THEN "exec" ELSE "sleep"]

WokenCall(c) ==
    LET f == call[c]
        g == IF f.pc # "sleep" THEN f
             ELSE IF WaitOver(f.waited + PollInterval)
             THEN [Woken(f) EXCEPT !.pc = "exec", !.attempts = Bump(@, f.pos)]
             ELSE Woken(f)
    IN [g EXCEPT !.attempts =
           [i \in 1..Len(g.attempts) |->
               IF i <= Len(task[c]) /\ task[c][i].st = "sleep"
                     /\ WaitOver(task[c][i].waited + PollInterval)
               THEN g.attempts[i] + 1 ELSE g.attempts[i]]]

\* no sleeper has slept past the timeout
WithinTimeout ==
    /\ \A c \in Callers : call[c].pc = "sleep" => call[c].waited < WaitTimeout
    /\ \A c \in Callers : \A i \in 1..Len(task[c]) :
           task[c][i].st = "sleep" => task[c][i].waited < WaitTimeout

\* one poll interval passes: every sleeper wakes and polls, and the monitor
\* loop has its next sample to take
Tick ==
    /\ ~Runnable
    /\ WithinTimeout
    /\ sample_due' = TRUE
    /\ call' = [c \in Callers |-> WokenCall(c)]
    /\ task' = [c \in Callers |-> [i \in 1..Len(task[c]) |-> WokenTask(task[c][i])]]
    /\ UNCHANGED <<current_metrics, is_processing, monitor_vars, probe, current_strategy, executor, pools,
                   performance_cache, cache_filler, processing_history, runs_started>>

(* ---------------- _process_adaptive_sampling ---------------- *)
\* _process_sequential over the sample, without the waits: one result per sampled item
SequentialResults(cb, items) ==
    [j \in 1..Len(items) |->
        IF Invoke(cb, items[j]).k = "raise" THEN None ELSE Invoke(cb, items[j])]

SampleOf(items, level) ==
    LET positions == SampledPositions(Len(items), SampleSize(Len(items), level))
    IN [j \in 1..Len(positions) |-> items[positions[j]]]

\* how often the callback ran on the item at position i while the sample was processed
SampledCount(items, level, i) ==
    LET positions == SampledPositions(Len(items), SampleSize(Len(items), level))
    IN Cardinality({j \in 1..Len(positions) : positions[j] = i})

\* lines 665-701; get_constraint_level(None) raises AttributeError
AdaptiveRun(c) ==
    LET f == call[c] IN
    /\ f.pc = "sample"
    /\ IF current_metrics = NoData THEN
           /\ call' = [call EXCEPT ![c] = Raised(f, "AttributeError")]
           /\ UNCHANGED processing_history
       ELSE
           LET level == get_constraint_level(current_metrics)
               sampled_items == SampleOf(f.items, level)
               sampled_results == SequentialResults(f.cb, sampled_items)
           IN
           /\ call' = [call EXCEPT ![c] =
                  [Returned(f, extrapolate_results(sampled_items, sampled_results, f.items))
                      EXCEPT !.level = level,
                             !.attempts = [i \in 1..Len(f.items) |->
                                              SampledCount(f.items, level, i)]]]
           /\ processing_history' = Recorded(f)
    /\ UNCHANGED <<current_metrics, sample_due, is_processing, monitor_vars, probe, current_strategy,
                   executor,
                   pools, performance_cache, cache_filler, runs_started, task>>

(* ---------------- the callers' inputs ---------------- *)
\* the item list of length n that repeats 1..period
ItemList(n, period) == [i \in 1..n |-> ((i - 1) % period) + 1]

Callback(fails, shape) ==
    [list |-> shape[1], fails |-> fails, batch |-> shape[2], name |-> "f"]

(* ---------------- AdaptiveSampling runs on long lists ---------------- *)
SamplingLists ==
    {ItemList(n, n) : n \in (SamplingThreshold + 1)..MaxSampleItems}
        \cup {ItemList(n, 2) : n \in {SamplingThreshold + 1, MaxSampleItems}}

SamplingCallbacks ==
    {Callback({}, <<FALSE, "scalar">>), Callback({}, <<TRUE, "same">>),
     Callback({1}, <<FALSE, "raise">>)}

SamplingSource == {HighSnap, CriticalSnap, MediumSnap}

\* a call that the selector answers with AdaptiveSampling
CallSampling(c) ==
    \E items \in SamplingLists, cb \in SamplingCallbacks :
        /\ current_metrics = NoData \/ get_constraint_level(current_metrics) = "high"
        /\ StartCall(c, items, cb, {HighSnap})

NextSampling ==
    \/ MonitorLoop(SamplingSource)
    \/ Tick
    \/ CallSampling(1)
    \/ AdaptiveRun(1)

SpecSampling == Init /\ [][NextSampling]_vars

\* C10 as stated: an AdaptiveSampling run over n items hands exactly
\* max(1, min(n, floor(n * r))) items to the callback (37 of 150 at High)
\* and returns n entries.
C10_SampleSizeAsStated ==
    \A c \in Callers :
        LET f == call[c] IN
        (f.pc = "returned" /\ f.strategy = "adaptive_sampling") =>
            /\ Len(f.results) = Len(f.items)
            /\ Cardinality({i \in 1..Len(f.items) : f.attempts[i] > 0})
                   = SampleSize(Len(f.items), f.level)

(* ---------------- one call on a fresh engine ---------------- *)
\* longest of the short item lists
MaxSeqItems == 3

\* short lists, and lists long enough for ParallelLimited
EngineLists ==
    {ItemList(n, 2) : n \in 0..MaxSeqItems}
        \cup {ItemList(n, n) : n \in (ParallelThreshold + 1)..MaxItems}

EngineCallbacks ==
    {Callback({}, <<FALSE, "scalar">>), Callback({1}, <<FALSE, "raise">>),
     Callback({2}, <<TRUE, "same">>), Callback({}, <<TRUE, "short">>),
     Callback({}, <<TRUE, "long">>)}

\* the NONE tier is met under load, where ParallelLimited gets two workers
EngineSource == {BusySnap, LowSnap, MediumSnap, HighSnap, CriticalSnap}

\* the callbacks used on the long lists, where the chunk shapes play no part
LongListCallbacks == {Callback({}, <<FALSE, "scalar">>), Callback({1}, <<FALSE, "raise">>)}

CallEngine(c) ==
    \E items \in EngineLists, cb \in EngineCallbacks :
        /\ Len(items) > MaxSeqItems => cb \in LongListCallbacks
        /\ StartCall(c, items, cb, EngineSource)

NextEngine ==
    \/ MonitorLoop(EngineSource)
    \/ Tick
    \/ CallEngine(1)
    \/ BeginItem(1)
    \/ Return(1)
    \/ Store(1)
    \/ Submit(1)
    \/ \E p \in 1..MaxPools : Pick(p)
    \/ \E i \in 1..MaxItems : TaskReturn(1, i)
    \/ Gather(1)

SpecEngine == Init /\ [][NextEngine]_vars

(* ---------------- properties of one call ---------------- *)
Fails(cb, x) == Invoke(cb, x).k = "raise"

\* the entry a run owes to item x: the callback's value, None where it raises
Outcome(cb, x) == IF Fails(cb, x) THEN None ELSE Invoke(cb, x)

NeverFails(cb) == cb.fails = {} /\ cb.batch # "raise"

\* C1 as stated: a returned result list has exactly one entry per item.
\* BatchOptimized breaks it when the callback answers a chunk with a single
\* value or with a list of another length.
C1_LengthAsStated ==
    \A c \in Callers :
        call[c].pc = "returned" => Len(call[c].results) = Len(call[c].items)

\* C3 as stated: with the default constraints and a callback that never
\* fails, no call ends in a run-level error, whatever the tier and the list.
C3_NoRunErrorAsStated ==
    \A c \in Callers : NeverFails(call[c].cb) => call[c].pc # "raised"

IsolatingStrategies ==
    {"sequential", "skill_priority", "parallel_limited", "caching_aggressive"}

\* position i of a CachingAggressive run on a fresh engine is answered from
\* the cache: an earlier position held the same key and its callback returned
FromCache(f, i) ==
    /\ f.strategy = "caching_aggressive"
    /\ \E j \in 1..(i - 1) :
           /\ create_cache_key(f.items[j], f.cb.name) = create_cache_key(f.items[i], f.cb.name)
           /\ ~Fails(f.cb, f.items[j])

\* C2, amended: under Sequential, SkillPriority, ParallelLimited and
\* CachingAggressive a failing callback never ends the run in an error; no
\* item is attempted twice; the returned list has None in the slot of each
\* failed item and the callback's value in every other slot; every item is
\* attempted exactly once, except that CachingAggressive does not attempt an
\* item whose key an earlier item of the run has put into the cache.
C2_FailureIsolation ==
    \A c \in Callers :
        LET f == call[c] IN
        f.strategy \in IsolatingStrategies =>
            /\ f.pc # "raised"
            /\ \A i \in 1..Len(f.attempts) : f.attempts[i] <= 1
            /\ f.pc = "returned" =>
                   /\ Len(f.results) = Len(f.items)
                   /\ \A i \in 1..Len(f.items) :
                          /\ f.results[i] = Outcome(f.cb, f.items[i])
                          /\ f.attempts[i] = IF FromCache(f, i) THEN 0 ELSE 1

\* a run went on after a failure: one slot is None, another holds a value
C2_Witness ==
    \E c \in Callers :
        LET f == call[c] IN
        /\ f.pc = "returned"
        /\ f.strategy \in IsolatingStrategies
        /\ \E i, j \in 1..Len(f.items) :
               /\ i < j
               /\ Fails(f.cb, f.items[i]) /\ f.results[i] = None
               /\ f.results[j] # None /\ f.attempts[j] = 1

\* C2 as stated: in a run with a failure every item is attempted exactly once
C2_ExactlyOnceAsStated ==
    \A c \in Callers :
        LET f == call[c] IN
        (/\ f.pc = "returned"
         /\ f.strategy \in IsolatingStrategies
         /\ \E i \in 1..Len(f.items) : Fails(f.cb, f.items[i]))
            => \A i \in 1..Len(f.items) : f.attempts[i] = 1

\* C4: under ParallelLimited, whatever the order in which the work items
\* finish, each finished work item holds the outcome of its own item and the
\* returned list has the outcome of items[i] at position i, None where the
\* callback failed.
C4_ParallelOrder ==
    \A c \in Callers :
        LET f == call[c] IN
        f.strategy = "parallel_limited" =>
            /\ \A i \in 1..Len(task[c]) :
                   task[c][i].st = "done" => task[c][i].out = Invoke(f.cb, f.items[i])
            /\ f.pc = "returned" =>
                   f.results = [i \in 1..Len(f.items) |-> Outcome(f.cb, f.items[i])]

\* a ParallelLimited run returned with a failed first item and a value after it
C4_Witness ==
    \E c \in Callers :
        LET f == call[c] IN
        /\ f.pc = "returned"
        /\ f.strategy = "parallel_limited"
        /\ Fails(f.cb, f.items[1]) /\ f.results[1] = None
        /\ f.results[2] = Val(f.cb, f.items[2])

\* the snapshot a poll has just read lets the callback run
Cleared(waited) ==
    \/ current_metrics = NoData
    \/ get_constraint_level(current_metrics) # "critical"
    \/ waited >= WaitTimeout

MaxWaitItems == 2

WaitLists ==
    {ItemList(n, n) : n \in 1..MaxWaitItems}
        \cup {ItemList(n, n) : n \in (ParallelThreshold + 1)..MaxItems}

WaitCallbacks == {Callback({}, <<FALSE, "scalar">>), Callback({1}, <<FALSE, "raise">>)}

WaitSource == {BusySnap, CriticalSnap}

CallWait(c) ==
    \E items \in WaitLists, cb \in WaitCallbacks : StartCall(c, items, cb, WaitSource)

NextWait ==
    \/ MonitorLoop(WaitSource)
    \/ Tick
    \/ CallWait(1)
    \/ BeginItem(1)
    \/ Return(1)
    \/ Submit(1)
    \/ \E p \in 1..MaxPools : Pick(p)
    \/ \E i \in 1..MaxItems : TaskReturn(1, i)
    \/ Gather(1)

\* the event loop runs every coroutine that is ready, the worker threads run,
\* and time passes; the monitor may stay silent and the caller may never call
SpecWait ==
    /\ Init
    /\ [][NextWait]_vars
    /\ WF_vars(Tick)
    /\ WF_vars(BeginItem(1))
    /\ WF_vars(Return(1))
    /\ WF_vars(Submit(1))
    /\ WF_vars(\E p \in 1..MaxPools : Pick(p))
    /\ WF_vars(\E i \in 1..MaxItems : TaskReturn(1, i))
    /\ WF_vars(Gather(1))

\* C6: whatever the monitor publishes, Critical forever included, no wait
\* lasts beyond the timeout of 30 polls, a caller that sleeps in a wait goes
\* on to invoke its callback, and a call that has started returns.
C6_WaitEnds ==
    /\ [](\A c \in Callers :
            /\ call[c].waited <= WaitTimeout
            /\ \A i \in 1..Len(task[c]) : task[c][i].waited <= WaitTimeout)
    /\ (call[1].pc = "sleep") ~> (call[1].pc = "exec")
    /\ (call[1].pc # "idle") ~> (call[1].pc = "returned")

\* the callback runs although the snapshot is still Critical: the timeout elapsed
C6_Witness ==
    /\ call[1].pc = "exec"
    /\ call[1].waited = WaitTimeout
    /\ get_constraint_level(current_metrics) = "critical"

(* ---------------- two overlapping ParallelLimited calls on one engine ---------------- *)
OverlapLists == {ItemList(n, n) : n \in (ParallelThreshold + 1)..MaxItems}

OverlapSource == {CalmSnap, BusySnap}

CallOverlap(c) ==
    \E items \in OverlapLists :
        StartCall(c, items, Callback({}, <<FALSE, "scalar">>), OverlapSource)

\* the work item of caller c that has been running longest, 0 if none runs
OldestInProgress(c) ==
    LET running == {i \in 1..Len(task[c]) : task[c][i].st = "exec"}
    IN IF running = {} THEN 0 ELSE CHOOSE i \in running : \A j \in running : i <= j

\* Of the orders in which work items finish, the overlap is explored under
\* those where the work items of a call finish in the order they were taken
\* up: the number of invocations in progress does not depend on which of
\* them finishes first.
NextOverlap ==
    \/ MonitorLoop(OverlapSource)
    \/ Tick
    \/ \E c \in Callers : CallOverlap(c)
    \/ \E c \in Callers : Submit(c)
    \/ \E p \in 1..MaxPools : Pick(p)
    \/ \E c \in Callers : TaskReturn(c, OldestInProgress(c))
    \/ \E c \in Callers : Gather(c)

SpecOverlap == Init /\ [][NextOverlap]_vars

\* the callback invocations in progress on pool threads of the engine
InProgress ==
    {ci \in Callers \X (1..MaxItems + 1) :
        ci[2] <= Len(task[ci[1]]) /\ task[ci[1]][ci[2]].st = "exec"}

\* C5 as stated: at every instant at most max_concurrent_tasks callback
\* invocations are in progress for the ParallelLimited work of the engine,
\* also while two calls overlap and the second has replaced the pool.
C5_BoundAsStated == Cardinality(InProgress) <= max_concurrent_tasks

(* ---------------- CachingAggressive runs on one engine ---------------- *)
CacheLists == {ItemList(n, 2) : n \in 1..MaxSeqItems}

\* two callbacks with names of their own, the second failing on item 1
CacheCallbacks ==
    {Callback({}, <<FALSE, "scalar">>),
     [Callback({1}, <<FALSE, "raise">>) EXCEPT !.name = "g"]}

CacheSource == {HighSnap}

\* earlier CachingAggressive runs over other items, taken as one step: they
\* leave the cache with entries under other keys, up to one below the limit
\* or up to the limit
OtherRuns ==
    /\ \A c \in Callers : call[c].pc \in {"idle", "returned", "raised"}
    /\ \E size \in {CacheLimit - 1, CacheLimit} :
           /\ size > CacheLen
           /\ cache_filler' = cache_filler + (size - CacheLen)
    /\ UNCHANGED <<current_metrics, sample_due, is_processing, monitor_vars, probe, current_strategy,
                   executor,
                   pools, performance_cache, processing_history, runs_started, call, task>>

\* caller 2 calls once caller 1 has its results: two successive runs
CallCache(c) ==
    /\ c = 1 \/ call[1].pc = "returned"
    /\ \E items \in CacheLists, cb \in CacheCallbacks : StartCall(c, items, cb, CacheSource)

NextCache ==
    \/ MonitorLoop(CacheSource)
    \/ Tick
    \/ OtherRuns
    \/ \E c \in Callers : CallCache(c)
    \/ \E c \in Callers : BeginItem(c)
    \/ \E c \in Callers : Return(c)
    \/ \E c \in Callers : Store(c)

SpecCache == Init /\ [][NextCache]_vars

\* the positions of the runs at which the callback was invoked on key
InvokedAt(key) ==
    {ci \in Callers \X (1..MaxSeqItems + 1) :
        /\ ci[2] <= Len(call[ci[1]].items)
        /\ call[ci[1]].strategy = "caching_aggressive"
        /\ create_cache_key(call[ci[1]].items[ci[2]], call[ci[1]].cb.name) = key
        /\ call[ci[1]].attempts[ci[2]] > 0}

\* those of them at which the callback returned a value
ReturnedAt(key) == {ci \in InvokedAt(key) : ~Fails(call[ci[1]].cb, call[ci[1]].items[ci[2]])}

\* C8, amended: under CachingAggressive with a pure callback the same item
\* gets the same result wherever it occurs, in one run or in two successive
\* runs; no position is attempted twice; and while the cache holds fewer
\* than 1000 entries the callback returns a value at most once per cache
\* key.  A key whose invocation raised is not cached and is invoked again at
\* each occurrence.
C8_CachedOnce ==
    /\ \A c, d \in Callers : \A i \in 1..Len(call[c].results), j \in 1..Len(call[d].results) :
           (/\ call[c].strategy = "caching_aggressive"
            /\ call[d].strategy = "caching_aggressive"
            /\ call[c].cb = call[d].cb
            /\ call[c].items[i] = call[d].items[j])
               => call[c].results[i] = call[d].results[j]
    /\ \A c \in Callers : \A i \in 1..Len(call[c].attempts) : call[c].attempts[i] <= 1
    /\ CacheLen < CacheLimit => \A key \in KeySpace : Cardinality(ReturnedAt(key)) <= 1

\* the second of two successive runs answered an item from the cache that
\* the first run had invoked the callback on
C8_Witness ==
    /\ call[1].pc = "returned" /\ call[1].strategy = "caching_aggressive"
    /\ call[2].pc = "returned" /\ call[2].strategy = "caching_aggressive"
    /\ call[1].cb = call[2].cb
    /\ CacheLen < CacheLimit
    /\ call[1].items[1] = call[2].items[1]
    /\ call[1].attempts[1] = 1 /\ call[2].attempts[1] = 0
    /\ call[1].results[1] = call[2].results[1]
    /\ call[2].results[1] # None

\* C8 as stated: while the cache holds fewer than 1000 entries the callback
\* is invoked at most once per cache key
C8_InvokedOnceAsStated ==
    CacheLen < CacheLimit => \A key \in KeySpace : Cardinality(InvokedAt(key)) <= 1

(* ---------------- overlapping CachingAggressive calls on one engine ---------------- *)
CallCacheOverlap(c) ==
    \E items \in CacheLists, cb \in CacheCallbacks : StartCall(c, items, cb, CacheSource)

NextCacheOverlap ==
    \/ MonitorLoop(CacheSource)
    \/ Tick
    \/ OtherRuns
    \/ \E c \in Callers : CallCacheOverlap(c)
    \/ \E c \in Callers : BeginItem(c)
    \/ \E c \in Callers : Return(c)
    \/ \E c \in Callers : Store(c)

SpecCacheOverlap == Init /\ [][NextCacheOverlap]_vars

\* C9 as stated: the cache never holds more than 1000 entries, also when
\* calls overlap, and no write goes to a key that already has an entry.
C9_CapAsStated ==
    /\ CacheLen <= CacheLimit
    /\ \A c \in Callers :
           call[c].pc = "store" => performance_cache[CacheKeyAt(call[c])] = Absent

(* ---------------- properties of an AdaptiveSampling run ---------------- *)
\* the placeholder of a returned AdaptiveSampling run: line 831 on its sampled results
RunPlaceholder(f) == Placeholder(SequentialResults(f.cb, SampleOf(f.items, f.level)))

\* C11 as stated: in the list an AdaptiveSampling run returns, a position
\* that was sampled holds the callback's outcome for its own item and a
\* position that was not sampled holds the placeholder, also when the list
\* has equal items at sampled and non-sampled positions.
C11_PlacementAsStated ==
    \A c \in Callers :
        LET f == call[c] IN
        (f.pc = "returned" /\ f.strategy = "adaptive_sampling") =>
            \A i \in 1..Len(f.items) :
                f.results[i] = IF f.attempts[i] > 0 THEN Outcome(f.cb, f.items[i])
                               ELSE RunPlaceholder(f)

(* ---------------- the observer callback during a run ---------------- *)
\* caller c is inside _process_parallel_limited or _process_batch_optimized
RunInFlight(c) ==
    /\ call[c].pc \notin {"idle", "returned", "raised"}
    /\ call[c].strategy \in {"parallel_limited", "batch_optimized"}

\* C12 as stated: when the monitor loop delivers a snapshot to the observer
\* callback while a ParallelLimited or BatchOptimized run is in flight and the
\* selector picks for it a strategy other than current_strategy, the engine
\* sets current_strategy to that strategy.
C12_SwitchAsStated ==
    [][(/\ sample_due /\ ~sample_due'
        /\ \E c \in Callers : RunInFlight(c)
        /\ select_optimal_strategy(current_metrics', 0) # current_strategy)
          => current_strategy' = select_optimal_strategy(current_metrics', 0)]_vars

(* ---------------- the parameters of a run ---------------- *)
\* the records of processing_history written by the run numbered run
RecordsOf(run) == {k \in 1..Len(processing_history) : processing_history[k].run = run}

\* C13: the strategy, batch size and concurrency of a call are the ones
\* selected from the snapshot it read when it started, whatever snapshots the
\* monitor publishes and whatever current_strategy becomes meanwhile: the
\* call keeps them until it ends, its chunks and its worker pool are sized
\* by them, only the code path of its strategy runs, and the record it
\* returns holds them together with the snapshot read at the start.
C13_ParametersFixed ==
    \A c \in Callers :
        LET f == call[c]
            n == Len(f.items)
        IN
        f.pc # "idle" =>
            /\ f.metrics # NoData
            /\ f.strategy = select_optimal_strategy(f.metrics, n)
            /\ f.batch_size = optimize_batch_size(f.metrics, Min(BaseBatchCap, n))
            /\ f.concurrency = optimize_concurrency(f.metrics, n)
            /\ (f.pool # 0 \/ task[c] # <<>> \/ f.pc \in {"submit", "gather"})
                   => f.strategy = "parallel_limited"
            /\ f.pool # 0 => pools[f.pool].max_workers = f.concurrency
            /\ f.pc \in {"store"} => f.strategy = "caching_aggressive"
            /\ (f.pc = "sample" \/ f.level # "unread") => f.strategy = "adaptive_sampling"
            /\ (f.strategy = "batch_optimized" /\ RangeError(f) = "none" /\ f.pos <= n)
                   => (f.pos - 1) % (f.batch_size.twice \div 2) = 0
            /\ f.pc = "returned" =>
                   /\ Cardinality(RecordsOf(f.run)) = 1
                   /\ \A k \in RecordsOf(f.run) :
                          processing_history[k] =
                              [strategy |-> f.strategy, data_count |-> n,
                               batch_size |-> f.batch_size, concurrency |-> f.concurrency,
                               resource_metrics |-> f.metrics, run |-> f.run]

\* a run has returned after the monitor published a snapshot for which the
\* selector picks another strategy and another concurrency
C13_Witness ==
    \E c \in Callers :
        LET f == call[c] IN
        /\ f.pc = "returned"
        /\ f.strategy \in {"parallel_limited", "batch_optimized"}
        /\ Len(f.items) > 0
        /\ current_metrics # NoData
        /\ current_strategy = f.strategy
        /\ select_optimal_strategy(current_metrics, Len(f.items)) # f.strategy
        /\ optimize_concurrency(current_metrics, Len(f.items)) # f.concurrency

(* ---------------- processing_history ---------------- *)
\* the callers whose call returns in this step
Returning == {c \in Callers : call[c].pc # "returned" /\ call'[c].pc = "returned"}

\* C18, amended: a step in which a call returns appends exactly one record to
\* processing_history, holding the call's strategy, item count, batch size,
\* concurrency and the snapshot read at its start; every other step leaves
\* processing_history as it is.  The records are therefore in the order in
\* which the calls returned, which for overlapping calls need not be the
\* order in which they were made.
C18_AppendedOnReturn ==
    [][/\ Cardinality(Returning) <= 1
       /\ Returning = {} => processing_history' = processing_history
       /\ \A c \in Returning :
              processing_history' =
                  Append(processing_history,
                         [strategy |-> call'[c].strategy, data_count |-> Len(call'[c].items),
                          batch_size |-> call'[c].batch_size,
                          concurrency |-> call'[c].concurrency,
                          resource_metrics |-> call'[c].metrics, run |-> call'[c].run])]_vars

\* two overlapping calls have returned, the later one first
C18_Witness ==
    /\ Len(processing_history) = 2
    /\ processing_history[1].run > processing_history[2].run
    /\ \A c \in Callers : call[c].pc = "returned"

\* C18 as stated: the records are in the order in which the calls were made
C18_CallOrderAsStated ==
    \A j, k \in 1..Len(processing_history) :
        j < k => processing_history[j].run < processing_history[k].run

(* ---------------- ResourceMonitor ---------------- *)
\* _collect_metrics, lines 195-247: the snapshot with readings m taken as the
\* k-th capture; timestamp = time.time() grows with every capture
Stamped(m, k) == [cpu |-> m.cpu, mem |-> m.mem, timestamp |-> k]

\* a history that never drops a snapshot
AppendedUnbounded(history, m) == Append(history, m)

\* deque(maxlen=1000).append, lines 156 and 181
Appended(history, m) ==
    IF Len(history) >= HistoryLimit THEN Append(Tail(history), m) ELSE Append(history, m)

\* get_current_metrics, lines 249-251
get_current_metrics(history) ==
    IF history = <<>> THEN NoData ELSE history[Len(history)]

\* what an iteration of the loop can meet
Outcomes == {"ok", "observer_raised", "capture_failed"}

\* the outcomes of the last two iterations of a loop
Logged(log, o) == IF Len(log) < 2 THEN Append(log, o) ELSE <<log[2], o>>

\* a loop that an exception ends
LoopEndsOnError(loop, o) ==
    [loop EXCEPT !.st = IF o = "ok" THEN "sleep" ELSE "exited", !.slept = 0,
                 !.passed = Len(threads), !.log = Logged(@, o)]

\* lines 179-193: both except clauses leave the loop in time.sleep(sampling_interval)
LoopAfter(loop, o) ==
    [loop EXCEPT !.st = "sleep", !.slept = 0, !.passed = Len(threads), !.log = Logged(@, o)]

\* one pass of `while self.is_monitoring` in thread t, lines 178-193: the loop
\* ends, or captures, appends, calls every observer and goes to sleep
Iterate(t, source, outcomes, cap) ==
    /\ t \in 1..Len(threads)
    /\ threads[t].st = "run"
    /\ IF ~is_monitoring THEN
           /\ threads' = [threads EXCEPT ![t].st = "exited"]
           /\ UNCHANGED <<metrics_history, captures, notified, current_metrics,
                          current_strategy>>
       ELSE
           /\ captures < cap
           /\ \E o \in outcomes, m \in source :
                  /\ threads' = [threads EXCEPT ![t] = LoopAfter(@, o)]
                  /\ IF o = "capture_failed" THEN
                         UNCHANGED <<metrics_history, captures, notified, current_metrics,
                                      current_strategy>>
                     ELSE
                         /\ metrics_history' =
                                Appended(metrics_history, Stamped(m, captures + 1))
                         /\ captures' = captures + 1
                         /\ notified' = [ob \in Observers |-> captures + 1]
                         /\ current_metrics' = get_current_metrics(metrics_history')
                         /\ current_strategy' = on_resource_update(Stamped(m, captures + 1))
    /\ UNCHANGED <<sample_due, is_processing, executor, pools, performance_cache,
                   cache_filler, processing_history, runs_started, call, task,
                   is_monitoring, sampling_interval, probe, monitor_thread, user, reader>>

\* a start that finds the thread of an earlier start and makes no other
StartsFirstThread == ~is_monitoring /\ monitor_thread = 0

\* line 163: start_monitoring returns at once while is_monitoring is set
StartsThread == ~is_monitoring

\* start_monitoring, lines 161-168
start_monitoring(max_threads) ==
    /\ user.pc = "ready"
    /\ StartsThread => Len(threads) < max_threads
    /\ user' = [user EXCEPT !.op = "start", !.prev = user.op]
    /\ IF StartsThread THEN
           /\ is_monitoring' = TRUE
           /\ threads' = Append(threads, [NewLoop EXCEPT !.born = captures])
           /\ monitor_thread' = Len(threads) + 1
       ELSE
           UNCHANGED <<is_monitoring, threads, monitor_thread>>
    /\ UNCHANGED <<current_metrics, sample_due, is_processing, current_strategy, executor,
                   pools, performance_cache, cache_filler, processing_history, runs_started,
                   call, task, sampling_interval, probe, metrics_history, captures, notified,
                   reader>>

\* the user after is_monitoring = False, line 172: in join(timeout=2.0) when
\* there is a thread, line 173
Stopping(u) ==
    [u EXCEPT !.pc = IF monitor_thread # 0 THEN "joining"
                     ELSE IF u.op = "cleanup" THEN "shutdown" ELSE "ready",
              !.waited = 0]

\* stop_monitoring up to the join, lines 170-174
stop_monitoring ==
    /\ user.pc = "ready"
    /\ is_monitoring' = FALSE
    /\ user' = Stopping([user EXCEPT !.op = "stop", !.prev = user.op])
    /\ UNCHANGED <<current_metrics, sample_due, is_processing, current_strategy, executor,
                   pools, performance_cache, cache_filler, processing_history, runs_started,
                   call, task, sampling_interval, probe, monitor_thread, threads, metrics_history,
                   captures, notified, reader>>

\* join(timeout=2.0) returns: the thread has ended or two seconds have passed
JoinOver ==
    /\ user.pc = "joining"
    /\ threads[monitor_thread].st = "exited" \/ user.waited >= JoinTimeout

JoinReturns ==
    /\ JoinOver
    /\ user' = [user EXCEPT !.pc = IF user.op = "cleanup" THEN "shutdown" ELSE "ready",
                            !.waited = 0]
    /\ UNCHANGED <<current_metrics, sample_due, is_processing, current_strategy, executor,
                   pools, performance_cache, cache_filler, processing_history, runs_started,
                   call, task, is_monitoring, sampling_interval, probe, monitor_thread, threads,
                   metrics_history, captures, notified, reader>>

\* a loop after one more second of its time.sleep(sampling_interval)
Slept(loop) ==
    IF loop.st # "sleep" THEN loop
    ELSE IF loop.slept + 1 >= sampling_interval THEN [loop EXCEPT !.st = "run", !.slept = 0]
    ELSE [loop EXCEPT !.slept = @ + 1]

\* some thread of the monitor or its user can take a step without waiting
MonitorRunnable ==
    \/ \E t \in 1..Len(threads) : threads[t].st = "run"
    \/ JoinOver
    \/ user.pc = "shutdown"
    \/ reader.pc = "iterating"

\* one second passes for the sleeping loops and the joining user
Second ==
    /\ ~MonitorRunnable
    /\ \/ \E t \in 1..Len(threads) : threads[t].st = "sleep"
       \/ user.pc = "joining"
    /\ threads' = [t \in 1..Len(threads) |-> Slept(threads[t])]
    /\ user' = IF user.pc = "joining" THEN [user EXCEPT !.waited = @ + 1] ELSE user
    /\ UNCHANGED <<current_metrics, sample_due, is_processing, current_strategy, executor,
                   pools, performance_cache, cache_filler, processing_history, runs_started,
                   call, task, is_monitoring, sampling_interval, probe, monitor_thread,
                   metrics_history, captures, notified, reader>>

(* ---------------- SpecSampler: starts, stops and failures of the monitor ---------------- *)
\* threads started in one behaviour
MaxThreads == 2
\* snapshots captured in one behaviour
MaxSamples == 2
\* a sampling interval longer than the two seconds stop_monitoring waits
LongInterval == 3

SamplingIntervals == {DefaultInterval, LongInterval}
SamplerSource == {CalmSnap}

\* ResourceMonitor(sampling_interval), not yet started
InitSampler ==
    /\ NewEngine
    /\ probe = NoProbe
    /\ \E interval \in SamplingIntervals : NewMonitor(interval)

NextSampler ==
    \/ start_monitoring(MaxThreads)
    \/ stop_monitoring
    \/ JoinReturns
    \/ \E t \in 1..MaxThreads : Iterate(t, SamplerSource, Outcomes, MaxSamples)
    \/ Second

SpecSampler == InitSampler /\ [][NextSampler]_vars

\* thread t of the monitor takes a pass of the loop, with is_monitoring set, in this step
Iterates(t) ==
    /\ is_monitoring
    /\ threads[t].st = "run"
    /\ threads'[t] # threads[t]

LastOutcome(loop) == loop.log[Len(loop.log)]

\* C14: while is_monitoring is set, a pass of the loop in which an observer
\* callback raises or the capture fails does not end the loop: the thread
\* goes to sleep for the sampling interval and is back at the head of the
\* loop when the interval is over.  A capture that succeeds is appended to
\* metrics_history and every observer callback is called with it, also the
\* callbacks after one that raised; a capture that fails leaves the history
\* as it is.
C14_FailuresDoNotEndLoop ==
    [][\A t \in 1..Len(threads) :
          /\ Iterates(t) =>
                /\ threads'[t].st = "sleep"
                /\ threads'[t].slept = 0
                /\ IF LastOutcome(threads'[t]) = "capture_failed"
                   THEN metrics_history' = metrics_history /\ notified' = notified
                   ELSE /\ captures' = captures + 1
                        /\ metrics_history' # <<>>
                        /\ metrics_history'[Len(metrics_history')].timestamp = captures'
                        /\ \A ob \in Observers : notified'[ob] = captures'
          /\ (threads[t].st = "sleep" /\ threads'[t] # threads[t]) =>
                IF threads[t].slept + 1 >= sampling_interval
                THEN threads'[t].st = "run"
                ELSE threads'[t].st = "sleep" /\ threads'[t].slept = threads[t].slept + 1
          /\ threads'[t].st = "exited" => (threads[t].st = "exited" \/ ~is_monitoring)]_vars

\* a loop met a failure in one pass and captured, appended and delivered a
\* snapshot in its next pass
C14_Witness ==
    \E t \in 1..Len(threads) :
        /\ is_monitoring
        /\ threads[t].st = "sleep"
        /\ Len(threads[t].log) = 2
        /\ threads[t].log[1] \in {"capture_failed", "observer_raised"}
        /\ threads[t].log[2] = "ok"
        /\ metrics_history # <<>>
        /\ \A ob \in Observers : notified[ob] = metrics_history[Len(metrics_history)].timestamp

\* the loops that are running: threads that found is_monitoring set at their
\* last test, after the latest start, and have not ended
RunningLoops ==
    {t \in 1..Len(threads) : threads[t].st # "exited" /\ threads[t].passed = Len(threads)}

\* C16 as stated: after any sequence of start_monitoring and stop_monitoring
\* calls at most one sampling loop is running.
C16_OneLoopAsStated == Cardinality(RunningLoops) <= 1

\* start_monitoring has returned and the call before it was stop_monitoring
Restarted == user.pc = "ready" /\ user.op = "start" /\ user.prev = "stop"

\* the snapshots appended since loop was started
FreshSnapshots(loop) ==
    {k \in 1..Len(metrics_history) : metrics_history[k].timestamp > loop.born}

\* C15: start_monitoring called right after stop_monitoring has returned
\* does not fail and leaves the monitor running: is_monitoring is set and the
\* thread just started is in the loop; it makes its first pass before any
\* time passes, so that it never sleeps without having made one, and a
\* pass whose capture succeeded has appended a fresh snapshot.
C15_RestartSamples ==
    Restarted =>
        /\ user.error = "none"
        /\ is_monitoring
        /\ monitor_thread = Len(threads)
        /\ monitor_thread # 0
        /\ LET loop == threads[monitor_thread] IN
           /\ loop.st \in {"run", "sleep"}
           /\ loop.st = "sleep" => loop.log # <<>>
           /\ loop.slept < sampling_interval
           /\ (loop.log # <<>> /\ "capture_failed" \notin {loop.log[k] : k \in 1..Len(loop.log)})
                  => FreshSnapshots(loop) # {}

\* the monitor was stopped and started again, and the new loop has appended a
\* snapshot and sleeps, while the loop of the first start has ended
C15_Witness ==
    /\ Restarted
    /\ Len(threads) = 2
    /\ threads[1].st = "exited"
    /\ threads[2].st = "sleep"
    /\ threads[2].log = <<"ok">>
    /\ FreshSnapshots(threads[2]) # {}

(* ---------------- SpecRing: a monitor that fills its history ---------------- *)
\* snapshots captured in one behaviour, more than the history holds
MaxRingSamples == 1002

RingSource == {CalmSnap}
RingOutcomes == {"ok", "capture_failed"}

InitRing == NewEngine /\ NewMonitor(DefaultInterval) /\ probe = NoProbe

NextRing ==
    \/ start_monitoring(1)
    \/ Iterate(1, RingSource, RingOutcomes, MaxRingSamples)
    \/ Second

SpecRing == InitRing /\ [][NextRing]_vars

\* C19: after k successful captures metrics_history holds the most recent
\* min(k, 1000) captured snapshots, oldest first, and never more than 1000:
\* an append to a full history has dropped exactly the oldest one.
\* get_current_metrics returns the snapshot appended last, and no data
\* exactly when nothing was appended.
C19_Ring ==
    LET n == Min(captures, HistoryLimit) IN
    /\ Len(metrics_history) = n
    /\ Len(metrics_history) <= HistoryLimit
    /\ \A k \in 1..n : \E m \in RingSource :
           metrics_history[k] = Stamped(m, captures - n + k)
    /\ (get_current_metrics(metrics_history) = NoData) <=> (captures = 0)
    /\ captures > 0 =>
           \E m \in RingSource : get_current_metrics(metrics_history) = Stamped(m, captures)
    /\ current_metrics = get_current_metrics(metrics_history)

\* the history is full and its oldest snapshots have been dropped
C19_Witness ==
    /\ captures = HistoryLimit + 2
    /\ Len(metrics_history) = HistoryLimit
    /\ metrics_history[1].timestamp = 3
    /\ get_current_metrics(metrics_history).timestamp = HistoryLimit + 2

(* ---------------- readers of metrics_history ---------------- *)
RECURSIVE SumOver(_, _, _)
SumOver(seq, k, field) ==
    IF k = 0 THEN 0
    ELSE SumOver(seq, k - 1, field) + (IF field = "cpu" THEN seq[k].cpu ELSE seq[k].mem)

\* lines 261-286: None without recent snapshots, else the means of cpu and
\* memory, kept as sum and count, with the timestamp of the latest
Averaged(recent_metrics) ==
    IF recent_metrics = <<>> THEN NoData
    ELSE [cpu_sum |-> SumOver(recent_metrics, Len(recent_metrics), "cpu"),
          mem_sum |-> SumOver(recent_metrics, Len(recent_metrics), "mem"),
          count |-> Len(recent_metrics),
          timestamp |-> recent_metrics[Len(recent_metrics)].timestamp]

\* get_current_metrics, line 251: the test `if self.metrics_history`
LatestTest ==
    /\ reader.pc = "idle"
    /\ reader' = IF metrics_history = <<>>
                 THEN [IdleReader EXCEPT !.op = "latest"]
                 ELSE [IdleReader EXCEPT !.op = "latest", !.pc = "index"]
    /\ UNCHANGED <<current_metrics, sample_due, is_processing, current_strategy, executor,
                   pools, performance_cache, cache_filler, processing_history, runs_started,
                   call, task, is_monitoring, sampling_interval, probe, monitor_thread, threads,
                   metrics_history, captures, notified, user>>

\* get_current_metrics, line 251: self.metrics_history[-1]
LatestIndex ==
    /\ reader.pc = "index"
    /\ reader' = [reader EXCEPT !.pc = "idle",
                                !.out = metrics_history[Len(metrics_history)]]
    /\ UNCHANGED <<current_metrics, sample_due, is_processing, current_strategy, executor,
                   pools, performance_cache, cache_filler, processing_history, runs_started,
                   call, task, is_monitoring, sampling_interval, probe, monitor_thread, threads,
                   metrics_history, captures, notified, user>>

\* get_average_metrics, lines 255-259: None for an empty history, else the
\* cutoff and an iterator over the deque, which notes the deque's mutation
\* count (one mutation per append)
AverageBegin(cutoffs) ==
    /\ reader.pc = "idle"
    /\ \E cutoff_time \in cutoffs :
           reader' = IF metrics_history = <<>>
                     THEN [IdleReader EXCEPT !.op = "average"]
                     ELSE [IdleReader EXCEPT !.op = "average", !.pc = "iterating",
                                             !.cutoff = cutoff_time, !.seen = captures]
    /\ UNCHANGED <<current_metrics, sample_due, is_processing, current_strategy, executor,
                   pools, performance_cache, cache_filler, processing_history, runs_started,
                   call, task, is_monitoring, sampling_interval, probe, monitor_thread, threads,
                   metrics_history, captures, notified, user>>

\* the comprehension of line 259 asks the iterator for the next element: the
\* iterator raises RuntimeError when the deque was appended to since the
\* iterator was made, else yields the element or ends; lines 261-286 follow
\* the end
AverageNext ==
    /\ reader.pc = "iterating"
    /\ reader' =
           IF captures # reader.seen THEN
               [reader EXCEPT !.pc = "failed", !.error = "RuntimeError"]
           ELSE IF reader.pos < Len(metrics_history) THEN
               [reader EXCEPT !.pos = @ + 1]
           ELSE
               [reader EXCEPT !.pc = "idle",
                              !.out = Averaged(SelectSeq(metrics_history,
                                          LAMBDA m : m.timestamp >= reader.cutoff))]
    /\ UNCHANGED <<current_metrics, sample_due, is_processing, current_strategy, executor,
                   pools, performance_cache, cache_filler, processing_history, runs_started,
                   call, task, is_monitoring, sampling_interval, probe, monitor_thread, threads,
                   metrics_history, captures, notified, user>>

(* ---------------- SpecReaders: reads while the loop appends ---------------- *)
\* snapshots captured in one behaviour
MaxReaderSamples == 3

ReaderSource == {LowSnap, HighSnap}
Cutoffs == 1..MaxReaderSamples

InitReaders == NewEngine /\ NewMonitor(DefaultInterval) /\ probe = NoProbe

NextReaders ==
    \/ start_monitoring(1)
    \/ Iterate(1, ReaderSource, {"ok"}, MaxReaderSamples)
    \/ Second
    \/ LatestTest
    \/ LatestIndex
    \/ AverageBegin(Cutoffs)
    \/ AverageNext

SpecReaders == InitReaders /\ [][NextReaders]_vars

\* C20 as stated: get_current_metrics and get_average_metrics called from
\* another thread while the loop appends never fail.
C20_ReadsNeverFailAsStated == reader.error = "none"

(* ---------------- cleanup ---------------- *)
\* a shutdown that reopens a pool that was shut down before
Toggled(ps, e) == [ps EXCEPT ![e].shutdown = ~@]

\* ThreadPoolExecutor.shutdown: the pool takes no more work
ShutDown(ps, e) == [ps EXCEPT ![e].shutdown = TRUE]

\* cleanup up to the join of stop_monitoring, lines 860-862 with 170-174
cleanup ==
    /\ user.pc = "ready"
    /\ is_monitoring' = FALSE
    /\ user' = Stopping([user EXCEPT !.op = "cleanup", !.prev = user.op])
    /\ UNCHANGED <<current_metrics, sample_due, is_processing, current_strategy, executor,
                   pools, performance_cache, cache_filler, processing_history, runs_started,
                   call, task, sampling_interval, probe, monitor_thread, threads, metrics_history,
                   captures, notified, reader>>

\* lines 863-864: `if self.executor: self.executor.shutdown(wait=True)` up to
\* the wait for the work items
ExecutorShutdown ==
    /\ user.pc = "shutdown"
    /\ IF executor = 0 THEN
           /\ user' = [user EXCEPT !.pc = "ready"]
           /\ UNCHANGED pools
       ELSE
           /\ pools' = ShutDown(pools, executor)
           /\ user' = [user EXCEPT !.pc = "draining"]
    /\ UNCHANGED <<current_metrics, sample_due, is_processing, current_strategy, executor,
                   performance_cache, cache_filler, processing_history, runs_started,
                   call, task, is_monitoring, sampling_interval, probe, monitor_thread, threads,
                   metrics_history, captures, notified, reader>>

\* shutdown(wait=True) returns when the pool has run every work item it was
\* given; gc.collect() and the return of cleanup follow, line 865
ShutdownReturns ==
    /\ user.pc = "draining"
    /\ pools[executor].queue = <<>>
    /\ InFlight(executor) = {}
    /\ user' = [user EXCEPT !.pc = "ready"]
    /\ UNCHANGED <<current_metrics, sample_due, is_processing, current_strategy, executor,
                   pools, performance_cache, cache_filler, processing_history, runs_started,
                   call, task, is_monitoring, sampling_interval, probe, monitor_thread, threads,
                   metrics_history, captures, notified, reader>>

(* ---------------- SpecCleanup: an engine that is cleaned up ---------------- *)
\* snapshots captured in one behaviour
MaxCleanupSamples == 2

CleanupLists == {ItemList(n, n) : n \in {1, MaxItems}}
CleanupSource == {BusySnap}

CallCleanup ==
    \E items \in CleanupLists :
        StartCall(1, items, Callback({}, <<FALSE, "scalar">>), CleanupSource)

\* cleanup is called on the thread that runs the event loop: while it is in
\* progress the coroutines of the engine do not advance, the worker threads
\* of the pools and the thread of the monitor do
NextCleanup ==
    \/ user.pc = "ready" /\ CallCleanup
    \/ user.pc = "ready" /\ BeginItem(1)
    \/ user.pc = "ready" /\ Return(1)
    \/ user.pc = "ready" /\ Submit(1)
    \/ user.pc = "ready" /\ Gather(1)
    \/ \E p \in 1..MaxPools : Pick(p)
    \/ TaskReturn(1, OldestInProgress(1))
    \/ Iterate(1, CleanupSource, {"ok"}, MaxCleanupSamples)
    \/ Second
    \/ stop_monitoring
    \/ JoinReturns
    \/ cleanup
    \/ ExecutorShutdown
    \/ ShutdownReturns

SpecCleanup == Init /\ [][NextCleanup]_vars

\* what cleanup acts on: the monitor and its threads, and the pools
CleanedState == <<is_monitoring, monitor_thread, threads, executor, pools>>

\* the monitor is stopped and the pool is shut down and has no work left
Cleaned ==
    /\ ~is_monitoring
    /\ \A t \in 1..Len(threads) : threads[t].st = "exited"
    /\ executor # 0 =>
           /\ pools[executor].shutdown
           /\ pools[executor].queue = <<>>
           /\ InFlight(executor) = {}

\* C17: cleanup never fails, also when it is called twice in a row or after
\* the caller has stopped the monitor; when it returns the monitor is
\* stopped, its thread has ended and the pool is shut down; and no step of
\* a cleanup called on an engine in that state, as a first cleanup leaves
\* it, changes the monitor, its threads or the pools, nor any other part of
\* the engine: the state after the second call is the state after the first.
C17_CleanupIdempotent ==
    [][(user' # user /\ user'.op = "cleanup") =>
          /\ user'.error = "none"
          /\ user'.pc = "ready" => Cleaned'
          /\ Cleaned =>
                 /\ CleanedState' = CleanedState
                 /\ UNCHANGED <<current_metrics, current_strategy, performance_cache,
                                cache_filler, processing_history, metrics_history,
                                call, task>>]_vars

\* a second cleanup in a row has returned on an engine that had made a worker pool
C17_Witness ==
    /\ user.pc = "ready"
    /\ user.op = "cleanup"
    /\ user.prev = "cleanup"
    /\ executor # 0
    /\ Cleaned
    /\ call[1].pc = "returned"

(***************************************************************************)
(* The optimizer's pure methods, called directly: get_constraint_level,    *)
(* select_optimal_strategy and optimize_batch_size on drawn snapshots,     *)
(* constraints and counts.                                                 *)
(***************************************************************************)
MaxPercent == 60

\* the constraints tried: the default ones, maxima of 0 and None, maxima
\* low enough for every tier to occur below MaxPercent, small batch limits
Constraints(cpu, mem, batch) ==
    [max_cpu_percent |-> cpu, max_memory_percent |-> mem, max_batch_size |-> batch]

ConstraintChoices ==
    { DefaultConstraints,
      Constraints(0, 40, max_batch_size),
      Constraints(50, Unset, max_batch_size),
      Constraints(0, Unset, max_batch_size),
      Constraints(50, 40, max_batch_size),
      Constraints(40, 50, 50),
      Constraints(50, 50, 8) }

TaskCounts == {0, ParallelThreshold, ParallelThreshold + 1, SamplingThreshold,
               SamplingThreshold + 1}
BaseSizes == {0, 1, 4, 9, 19, 20, 21, 40, BaseBatchCap}

Levels == <<"none", "low", "medium", "high", "critical">>
\* how bad a level is: 1 for "none" up to 5 for "critical"
Rank(level) == CHOOSE i \in 1..Len(Levels) : Levels[i] = level

InitOptimizer ==
    /\ StartedMonitor
    /\ NewEngine
    /\ \E c \in ConstraintChoices, cpu \in 0..MaxPercent, mem \in 0..MaxPercent :
           probe = [NoProbe EXCEPT !.c = c, !.m = [cpu |-> cpu, mem |-> mem]]

OptimizerUnchanged ==
    UNCHANGED <<current_metrics, sample_due, is_processing, current_strategy, executor, pools,
                performance_cache, cache_filler, processing_history, runs_started, call, task,
                monitor_vars>>

\* constraints.get_constraint_level(metrics)
Classify ==
    /\ probe.op = "none"
    /\ probe' = [probe EXCEPT !.op = "classify", !.out = LevelUnder(probe.c, probe.m)]
    /\ OptimizerUnchanged

\* optimizer.select_optimal_strategy(metrics, task_count, task_complexity)
Select ==
    /\ probe.op = "none"
    /\ \E n \in TaskCounts :
           probe' = [probe EXCEPT !.op = "select", !.n = n,
                                  !.out = StrategyAt(LevelUnder(probe.c, probe.m), n)]
    /\ OptimizerUnchanged

\* optimizer.optimize_batch_size(base_batch_size, metrics)
BatchSize ==
    /\ probe.op = "none"
    /\ \E n \in BaseSizes :
           probe' = [probe EXCEPT !.op = "batch", !.n = n,
                                  !.out = BatchSizeAt(probe.c, LevelUnder(probe.c, probe.m), n)]
    /\ OptimizerUnchanged

NextOptimizer ==
    \/ Classify
    \/ Select
    \/ BatchSize

SpecOptimizer == InitOptimizer /\ [][NextOptimizer]_vars

\* a ratio as a fraction <<numerator, denominator>>: 0 when its maximum is 0 or unset
RatioOf(x, maximum) == IF maximum = 0 \/ maximum = Unset THEN <<0, 1>> ELSE <<x, maximum>>
FractionLess(a, b) == a[1] * b[2] < b[1] * a[2]
LargerOf(a, b) == IF FractionLess(a, b) THEN b ELSE a
\* r < tenths/10
Under(r, tenths) == FractionLess(r, <<tenths, 10>>)

\* the tier stated for r = max(cpu/max_cpu, mem/max_mem)
StatedTier(c, m) ==
    LET r == LargerOf(RatioOf(m.cpu, c.max_cpu_percent), RatioOf(m.mem, c.max_memory_percent)) IN
    IF Under(r, 5) THEN "none"
    ELSE IF Under(r, 7) THEN "low"
    ELSE IF Under(r, 9) THEN "medium"
    ELSE IF Under(r, 11) THEN "high"
    ELSE "critical"

\* C21: get_constraint_level returns the tier of r = max(cpu/max_cpu,
\* mem/max_mem), a ratio being 0 when its maximum is 0 or unset: none below
\* 0.5, low from 0.5, medium from 0.7, high from 0.9, critical from 1.1;
\* a higher cpu or memory percentage, the rest unchanged, never gives a
\* better tier; and the tier is none when both percentages are 0.
C21_TierOfRatio ==
    probe.op = "classify" =>
        /\ probe.out = StatedTier(probe.c, probe.m)
        /\ \A more \in probe.m.cpu..MaxPercent :
               Rank(LevelUnder(probe.c, [probe.m EXCEPT !.cpu = more])) >= Rank(probe.out)
        /\ \A more \in probe.m.mem..MaxPercent :
               Rank(LevelUnder(probe.c, [probe.m EXCEPT !.mem = more])) >= Rank(probe.out)
        /\ (probe.m.cpu = 0 /\ probe.m.mem = 0) => probe.out = "none"

\* a snapshot exactly on the 0.7 boundary of memory was classified medium
\* although its cpu percentage, whose maximum is 0, is far higher
C21_Witness ==
    /\ probe.op = "classify"
    /\ probe.c.max_cpu_percent = 0
    /\ probe.m.cpu = MaxPercent
    /\ probe.m.mem * 10 = 7 * probe.c.max_memory_percent
    /\ probe.out = "medium"

Strategies == {"sequential", "batch_optimized", "parallel_limited", "skill_priority",
               "adaptive_sampling", "caching_aggressive", "offload_external"}

\* the strategy stated for a tier and a number of pending items
StatedStrategy(tier, pending) ==
    CASE tier = "none" /\ pending > 10 -> "parallel_limited"
      [] tier = "none" /\ pending <= 10 -> "batch_optimized"
      [] tier = "low" -> "batch_optimized"
      [] tier = "medium" -> "skill_priority"
      [] tier = "high" /\ pending > 100 -> "adaptive_sampling"
      [] tier = "high" /\ pending <= 100 -> "caching_aggressive"
      [] tier = "critical" -> "sequential"

\* C22: select_optimal_strategy returns a strategy for every tier and
\* count, and the one stated: at none ParallelLimited above 10 pending
\* items and BatchOptimized otherwise, at low BatchOptimized, at medium
\* SkillPriority, at high AdaptiveSampling above 100 pending items and
\* CachingAggressive otherwise, at critical Sequential; it is a function
\* of the tier and the count alone.
C22_StrategyTable ==
    probe.op = "select" =>
        /\ probe.out \in Strategies
        /\ probe.out = StatedStrategy(StatedTier(probe.c, probe.m), probe.n)
        /\ probe.out = StrategyAt(LevelUnder(probe.c, probe.m), probe.n)

\* exactly 100 pending items at tier high got CachingAggressive
C22_Witness ==
    /\ probe.op = "select"
    /\ LevelUnder(probe.c, probe.m) = "high"
    /\ probe.n = SamplingThreshold
    /\ probe.out = "caching_aggressive"

\* C23: for a fixed base and batch limit, optimize_batch_size never
\* returns a larger batch at a worse tier: none >= low >= medium >= high
\* >= critical.
C23_BatchSizeAsStated ==
    probe.op = "batch" =>
        \A i \in 1..(Len(Levels) - 1) :
            BatchSizeAt(probe.c, Levels[i], probe.n).twice
                >= BatchSizeAt(probe.c, Levels[i + 1], probe.n).twice

(* ---------------- get_performance_stats ---------------- *)
RECURSIVE DataCount(_, _)
\* sum(h['data_count'] for h in history[:upto])
DataCount(history, upto) ==
    IF upto = 0 THEN 0 ELSE history[upto].data_count + DataCount(history, upto - 1)

\* strategy_counts, lines 844-846
StrategyCounts(history) ==
    [s \in {history[i].strategy : i \in 1..Len(history)} |->
        Cardinality({i \in 1..Len(history) : history[i].strategy = s})]

NoStats == [empty |-> TRUE]

\* the statistics as far as they are stated; a rate is <<numerator, denominator>>
get_performance_stats ==
    IF processing_history = <<>> THEN NoStats
    ELSE [current_strategy |-> current_strategy,
          empty |-> FALSE,
          total_processed |-> DataCount(processing_history, Len(processing_history)),
          total_strategies_used |-> Cardinality(DOMAIN StrategyCounts(processing_history)),
          strategy_distribution |-> StrategyCounts(processing_history),
          cache_hit_rate |-> <<CacheLen,
                               Max(1, DataCount(processing_history, Len(processing_history)))>>]

\* the ended CachingAggressive runs
CachingRuns == {c \in Callers : call[c].pc = "returned" /\ call[c].strategy = "caching_aggressive"}

\* the lookups those runs made, one per position, as <<caller, position>>
Lookups == {ci \in CachingRuns \X (1..MaxItems) : ci[2] <= Len(call[ci[1]].items)}

\* those of them answered from the cache: the callback was never invoked there
Hits == {ci \in Lookups : call[ci[1]].attempts[ci[2]] = 0}

\* C24: once the runs made so far have ended, the cache hit ratio that
\* get_performance_stats reports is the number of CachingAggressive lookups
\* answered from the cache over the number of lookups made, and the
\* strategy distribution gives each strategy the number of recorded runs
\* that used it.
C24_HitRatioAsStated ==
    (/\ processing_history # <<>>
     /\ \A c \in Callers : call[c].pc \in {"idle", "returned"}
     /\ Lookups # {}) =>
        LET stats == get_performance_stats IN
        /\ stats.cache_hit_rate[1] * Cardinality(Lookups)
               = Cardinality(Hits) * stats.cache_hit_rate[2]
        /\ \A s \in Strategies :
               Cardinality({c \in Callers : call[c].pc = "returned" /\ call[c].strategy = s})
                   = IF s \in DOMAIN stats.strategy_distribution
                     THEN stats.strategy_distribution[s] ELSE 0

(* ---------------- BatchOptimized chunks ---------------- *)
\* the first positions of the chunks of a BatchOptimized run, line 577
ChunkStarts(f) ==
    {i \in 1..Len(f.items) : (i - 1) % (f.batch_size.twice \div 2) = 0}

\* C25: a BatchOptimized run handles the items in consecutive chunks of
\* the batch size.  A callback that accepts a list is invoked once per
\* chunk; a callback that accepts a single item is invoked once per item,
\* so each item has its own result slot, None only where the callback
\* fails on that item.
C25_PerItemAsStated ==
    \A c \in Callers :
        (call[c].pc = "returned" /\ call[c].strategy = "batch_optimized") =>
            IF call[c].cb.list
            THEN \A i \in 1..Len(call[c].items) :
                     call[c].attempts[i] = IF i \in ChunkStarts(call[c]) THEN 1 ELSE 0
            ELSE /\ Len(call[c].results) = Len(call[c].items)
                 /\ \A i \in 1..Len(call[c].items) :
                        call[c].results[i] = Outcome(call[c].cb, call[c].items[i])

(***************************************************************************)
(* SkillPriority and OffloadExternal on an engine without adaptive_manager, *)
(* next to Sequential: the three methods called directly, and calls of     *)
(* process_with_constraints at tiers medium and critical.                  *)
(***************************************************************************)
DelegateLists == {ItemList(n, 2) : n \in 1..MaxSeqItems}
DelegateCallbacks == {Callback({}, <<FALSE, "scalar">>), Callback({1}, <<FALSE, "raise">>)}
DelegateSource == {MediumSnap, CriticalSnap}
Delegating == {"skill_priority", "offload_external"}

\* await engine._process_sequential(items, cb), _process_skill_priority(items, cb)
\* or _process_offload_external(items, cb): no run of process_with_constraints
DirectCall(c) ==
    /\ call[c].pc = "idle"
    /\ \E method \in Delegating \cup {"sequential"}, items \in DelegateLists,
          cb \in DelegateCallbacks :
           call' = [call EXCEPT ![c] =
               [IdleCall EXCEPT !.pc = "loop", !.items = items, !.cb = cb,
                                !.strategy = method,
                                !.attempts = [i \in 1..Len(items) |-> 0]]]
    /\ UNCHANGED <<current_metrics, sample_due, is_processing, monitor_vars, probe,
                   current_strategy, executor, pools, performance_cache, cache_filler,
                   processing_history, runs_started, task>>

CallDelegate(c) ==
    \E items \in DelegateLists, cb \in DelegateCallbacks :
        StartCall(c, items, cb, DelegateSource)

NextDelegate ==
    \/ MonitorLoop(DelegateSource)
    \/ Tick
    \/ DirectCall(1)
    \/ CallDelegate(1)
    \/ BeginItem(1)
    \/ Return(1)

SpecDelegate == Init /\ [][NextDelegate]_vars

\* the frame that _process_sequential reaches in one step from frame f
SequentialStep(f) ==
    LET g == [f EXCEPT !.strategy = "sequential"] IN
    IF g.pc = "loop" THEN
        (IF g.pos > Len(g.items) THEN Returned(g, g.results) ELSE Checked(g))
    ELSE IF g.pc = "exec" THEN Left(AfterCallback(g))
    ELSE IF g.pc = "sleep" THEN
        (IF WaitOver(g.waited + PollInterval)
         THEN [Woken(g) EXCEPT !.pc = "exec", !.attempts = Bump(@, g.pos)]
         ELSE Woken(g))
    ELSE g

\* C26: on an engine without adaptive_manager every step of a SkillPriority
\* run and of an OffloadExternal run is the step a Sequential run takes
\* from the same frame in the same state: the same resource check and
\* wait before each item, the callback invoked on the same item, the same
\* entry appended, the same end; and like a Sequential run it leaves the
\* cache and the worker pools alone.
C26_SameAsSequential ==
    [][\A c \in Callers :
          (call[c].strategy \in Delegating /\ call[c].pc # "idle" /\ call'[c] # call[c]) =>
              /\ [call'[c] EXCEPT !.strategy = "sequential"] = SequentialStep(call[c])
              /\ UNCHANGED <<performance_cache, cache_filler, executor, pools, task>>]_vars

\* an OffloadExternal run whose callback failed on the first item waits
\* for resources before its second item
C26_Witness ==
    /\ call[1].strategy = "offload_external"
    /\ call[1].pc = "sleep"
    /\ call[1].waited > 0
    /\ call[1].pos = 2
    /\ call[1].results = <<None>>

(* ---------------- the tier read by _process_adaptive_sampling ---------------- *)
\* C27: the tier from which an AdaptiveSampling run derives its sample
\* ratio is the tier of the snapshot the selector chose the strategy on,
\* which is high, also when the monitor publishes a snapshot of another
\* tier between the selection and the sampling.
C27_TierHeldAsStated ==
    \A c \in Callers :
        LET f == call[c] IN
        (f.pc = "returned" /\ f.strategy = "adaptive_sampling") =>
            /\ f.level = get_constraint_level(f.metrics)
            /\ f.level = "high"

\* C28: a call made while the monitor has published no snapshot works on
\* the snapshot it samples itself and ends with results, whichever strategy
\* is selected: no step of it fails for want of a published snapshot.
C28_NoSnapshotAsStated ==
    \A c \in Callers :
        ~(call[c].pc = "raised" /\ call[c].error = "AttributeError")

(***************************************************************************)
(* An engine that is used again after cleanup: a ParallelLimited run, a    *)
(* cleanup, and a second ParallelLimited run once cleanup has returned.    *)
(***************************************************************************)
ReuseLists == {ItemList(MaxItems, MaxItems)}
\* two snapshots of tier none: optimize_concurrency gives 2 workers on the
\* first and 4 on the second
ReuseSource == {BusySnap, CalmSnap}

\* caller 1 calls before any cleanup, caller 2 after a cleanup has returned
CallReuse(c) ==
    /\ user.pc = "ready"
    /\ IF c = 1 THEN user.op = "none" ELSE user.op = "cleanup" /\ call[1].pc = "returned"
    /\ \E items \in ReuseLists :
           StartCall(c, items, Callback({}, <<FALSE, "scalar">>), ReuseSource)

NextReuse ==
    \/ \E c \in Callers : CallReuse(c)
    \/ \E c \in Callers : user.pc = "ready" /\ Submit(c)
    \/ \E c \in Callers : user.pc = "ready" /\ Gather(c)
    \/ \E p \in 1..MaxPools : Pick(p)
    \/ \E c \in Callers : TaskReturn(c, OldestInProgress(c))
    \/ Iterate(1, ReuseSource, {"ok"}, MaxCleanupSamples)
    \/ Second
    \/ JoinReturns
    \/ cleanup
    \/ ExecutorShutdown
    \/ ShutdownReturns

SpecReuse == Init /\ [][NextReuse]_vars

\* C29: a pool that was shut down is never given work: a call made after
\* cleanup that selects ParallelLimited, with the concurrency of the run
\* before the cleanup or with another, invokes the callback on every item
\* and returns its results.
C29_RunsAfterCleanupAsStated ==
    /\ call[2].pc # "raised"
    /\ call[2].pc = "returned" =>
           /\ \A i \in 1..Len(call[2].items) : call[2].attempts[i] = 1
           /\ call[2].results = SequentialResults(call[2].cb, call[2].items)

(***************************************************************************)
(* CachingAggressive runs with callbacks that share a name and with items  *)
(* that share a text: two successive runs on one engine.                   *)
(***************************************************************************)
\* the int 1, the str "1" and a list with both
KeyLists == {<<1>>, <<TextBase + 1>>, <<1, TextBase + 1>>, <<2>>}

\* two callbacks named "f" that return different values, and one named "g"
KeyCallbacks ==
    {Callback({}, <<FALSE, "scalar">>), Callback({}, <<TRUE, "same">>),
     [Callback({}, <<FALSE, "scalar">>) EXCEPT !.name = "g"]}

KeySource == {HighSnap}

CallKeys(c) ==
    /\ c = 1 \/ call[1].pc = "returned"
    /\ \E items \in KeyLists, cb \in KeyCallbacks : StartCall(c, items, cb, KeySource)

NextKeys ==
    \/ MonitorLoop(KeySource)
    \/ Tick
    \/ \E c \in Callers : CallKeys(c)
    \/ \E c \in Callers : BeginItem(c)
    \/ \E c \in Callers : Return(c)
    \/ \E c \in Callers : Store(c)

SpecKeys == Init /\ [][NextKeys]_vars

\* C30: an entry that a CachingAggressive run takes from the cache is what
\* the run's own callback returns for the item at that position: it was
\* not produced by another callback of the same name, nor for another item.
C30_HitAsStated ==
    \A c \in Callers :
        LET f == call[c] IN
        (f.pc = "returned" /\ f.strategy = "caching_aggressive") =>
            \A i \in 1..Len(f.items) :
                f.attempts[i] = 0 => f.results[i] = Invoke(f.cb, f.items[i])

====
